---- MODULE Spec2Model ----
(***************************************************************************)
(* Model of DeferredAccountFlow                                            *)
(* (extensions/amp-subscriptions/0.1/deferred-account-flow.js).            *)
(*                                                                         *)
(* A run of the flow is a chain of promise callbacks.  Every callback that *)
(* touches something shared (the durable store, the publisher's server,    *)
(* the user) is one action.  The digest of getStorageKey_ is a suspension  *)
(* point too, but it reads and writes nothing shared, so its outcome is    *)
(* drawn inside the action of the callback that consumes the key.          *)
(* Fire-and-forget promises (the HAS_PUBLISHER_ACCOUNT write of line 164,  *)
(* the consent chain of line 199) are tracked beside the promise that      *)
(* run() returns, because nothing joins them to it.                        *)
(*                                                                         *)
(* JavaScript values are modelled as strings: "undefined", "true",         *)
(* "false", "null", and ordinary strings.                                  *)
(***************************************************************************)
EXTENDS Integers, Sequences, FiniteSets, TLC

\* Number of run() invocations that share the durable store.
MaxRuns == 2

Runs == 1..MaxRuns

\* Results of entitlements.json() that callers pass in.
Entitlements == {"ent-a", "ent-b"}

\* Constructor arguments: a configured URL, or the empty string when absent.
HasAccountUrlArgs == {"", "https://pub.example/has-account"}
RedirectUrlArgs == {"", "https://pub.example/create-account"}

\* Values the durable store holds for the keys of this flow.
StoredValues == {"true", "false"}

VARIABLES
  hasAssociatedAccountUrl_,    \* this.hasAssociatedAccountUrl_
  accountCreationRedirectUrl_, \* this.accountCreationRedirectUrl_
  storage_,                    \* the promise this.storage_ and its service
  cryptoSubtle,                \* crypto.subtle of the page
  store,                       \* the durable key-value store behind storage_
  account,                     \* the publisher's answer per entitlement
  runs                         \* one record per run() invocation

vars == <<hasAssociatedAccountUrl_, accountCreationRedirectUrl_, storage_,
          cryptoSubtle, store, account, runs>>

env == <<hasAssociatedAccountUrl_, accountCreationRedirectUrl_, storage_,
         cryptoSubtle>>

\* The storage service of the viewer: the promise storage_ resolves or rejects,
\* and the service it resolves to has a get and a set that resolve or reject.
\* "some AMP views don't support storage" (lines 110, 129): what a viewer
\* supports does not change while the page lives.
StorageServices ==
  {[promise |-> "rejected", get |-> "rejects", set |-> "rejects"]} \cup
  [promise : {"resolved"}, get : {"resolves", "rejects"},
   set : {"resolves", "rejects"}]

\* crypto.subtle: not defined (an insecure context), or its digest settles
\* one way or the other.
CryptoSubtles == {"undefined", "digest rejects", "digest resolves"}

----------------------------------------------------------------------------
(* JavaScript primitives used by getStorageKey_ *)

\* JSON.stringify(entitlements.json())
JSON_stringify(e) == "{\"source\":\"" \o e \o "\"}"

\* btoa(string): an injective encoding of its argument.  The one string the
\* code ever digests into a key is spelled out.
btoa(s) ==
  IF s = "[object ArrayBuffer]" THEN "W29iamVjdCBBcnJheUJ1ZmZlcl0="
  ELSE "b64<" \o s \o ">"

\* ToIndex(ToNumber(string)): a string that is not a numeric literal is NaN,
\* and ToIndex(NaN) is 0.
NumericStrings == [s \in {"0", "1", "2"} |->
                     CASE s = "0" -> 0 [] s = "1" -> 1 [] s = "2" -> 2]
ToIndex(s) == IF s \in DOMAIN NumericStrings THEN NumericStrings[s] ELSE 0

\* new ArrayBuffer(length): a zero-filled buffer of ToIndex(length) bytes.
ArrayBuffer(length) == [type |-> "ArrayBuffer",
                         bytes |-> [i \in 1..ToIndex(length) |-> 0]]

\* crypto.subtle.digest('SHA-256', buffer): a buffer that is a one-to-one
\* function of the bytes digested.
digest(buffer) == [type |-> "ArrayBuffer", bytes |-> <<"sha256", buffer.bytes>>]

\* String(object), as btoa and template literals apply it to an ArrayBuffer.
ObjectToString(object) == "[object " \o object.type \o "]"

\* x || null of the constructor.
OrNull(x) == IF x = "" THEN "null" ELSE x

\* JavaScript truthiness of the modelled values.
Truthy(v) == v \notin {"undefined", "false", "null", ""}

----------------------------------------------------------------------------
\* Both purposes under one name.
LOCAL_STORAGE_KEYS_same ==
  [HAS_PUBLISHER_ACCOUNT |-> "account-exists-on-publisher-side",
   HAS_REJECTED_ACCOUNT_CREATION |-> "account-exists-on-publisher-side"]

LOCAL_STORAGE_KEYS ==
  [HAS_PUBLISHER_ACCOUNT |-> "account-exists-on-publisher-side",
   HAS_REJECTED_ACCOUNT_CREATION |-> "user-rejected-account-creation-request"]

isDeferredAccountCreationEnabled ==
  Truthy(hasAssociatedAccountUrl_) /\ Truthy(accountCreationRedirectUrl_)

\* The key the digest callback of getStorageKey_ returns.
getStorageKey_(storageKey, entitlements) ==
  storageKey \o "_" \o
    btoa(ObjectToString(digest(ArrayBuffer(btoa(JSON_stringify(entitlements))))))

AllKeys == {getStorageKey_(LOCAL_STORAGE_KEYS[p], e) :
              p \in DOMAIN LOCAL_STORAGE_KEYS, e \in Entitlements}

\* getStorageData_ without the catch of line 109: store trouble rejects.
getStorageData_uncaught(storageKey, entitlements) ==
  IF cryptoSubtle = "digest rejects" THEN "rejects"
  ELSE IF storage_.promise = "rejected" \/ storage_.get = "rejects"
  THEN "rejects"
  ELSE store[getStorageKey_(storageKey, entitlements)]

\* What the promise of getStorageData_ settles to: "rejects" when the digest
\* rejects, else the stored value, or "undefined" when storage_ rejected or
\* s.get rejected (the catch of line 109) or the key is absent.
getStorageData_(storageKey, entitlements) ==
  IF cryptoSubtle = "digest rejects" THEN "rejects"
  ELSE IF storage_.promise = "rejected" \/ storage_.get = "rejects"
  THEN "undefined"
  ELSE store[getStorageKey_(storageKey, entitlements)]

\* setStorageData_ that resolves without having called s.set.
setStorageData_unwritten(storageKey, entitlements, value) ==
  IF cryptoSubtle = "digest rejects" \/ storage_.promise = "rejected"
  THEN [settled |-> "rejected", store |-> store]
  ELSE IF storage_.set = "rejects"
  THEN [settled |-> "dropped", store |-> store]
  ELSE [settled |-> "stored", store |-> store]

\* setStorageData_ that keeps a value the key already has.
setStorageData_firstWins(storageKey, entitlements, value) ==
  IF cryptoSubtle = "digest rejects" \/ storage_.promise = "rejected"
  THEN [settled |-> "rejected", store |-> store]
  ELSE IF storage_.set = "rejects"
  THEN [settled |-> "dropped", store |-> store]
  ELSE IF store[getStorageKey_(storageKey, entitlements)] # "undefined"
  THEN [settled |-> "stored", store |-> store]
  ELSE [settled |-> "stored",
        store |-> [store EXCEPT
                     ![getStorageKey_(storageKey, entitlements)] = value]]

\* How the promise of setStorageData_ settles, and the store it leaves.
\*   "stored"   s.set resolved;
\*   "dropped"  s.set rejected and the catch of line 128 resolved the promise;
\*   "rejected" the digest or storage_ rejected: no handler, the promise rejects.
setStorageData_(storageKey, entitlements, value) ==
  IF cryptoSubtle = "digest rejects" \/ storage_.promise = "rejected"
  THEN [settled |-> "rejected", store |-> store]
  ELSE IF storage_.set = "rejects"
  THEN [settled |-> "dropped", store |-> store]
  ELSE [settled |-> "stored",
        store |-> [store EXCEPT
                     ![getStorageKey_(storageKey, entitlements)] = value]]

----------------------------------------------------------------------------
NewRun ==
  [ent |-> "none",
   pc |-> "idle",          \* position of the chain run() returns
   result |-> "pending",   \* settlement of the promise run() returns
   after |-> {},           \* runs that were over when this one began
   hadAccount |-> FALSE,   \* the server had the account when this one began
   rejected |-> "unread",  \* value of `rejected` at line 189
   cached |-> "unread",    \* publisherAccountLocalValue at line 144
   exists |-> "none",      \* settlement of hasAssociatedUserAccount_
   found |-> "none",       \* jsonResult.found at line 195
   urlCalls |-> 0,         \* calls of urlBuilder_.buildUrl
   netCalls |-> 0,         \* calls of xhr_.fetchJson
   hasWrite |-> "none",    \* setStorageData_ of line 164
   consent |-> "none",     \* consentDeferredAccountCreation of line 199
   nav |-> <<>>,           \* urls passed to navigateTo_
   rejWrite |-> "none"]    \* setStorageData_ of line 206

Init ==
  /\ hasAssociatedAccountUrl_ \in {OrNull(u) : u \in HasAccountUrlArgs}
  /\ accountCreationRedirectUrl_ \in {OrNull(u) : u \in RedirectUrlArgs}
  /\ storage_ \in StorageServices
  /\ cryptoSubtle \in CryptoSubtles
  /\ store = [k \in AllKeys |-> "undefined"]
  /\ account \in [Entitlements -> BOOLEAN]
  /\ runs = [r \in Runs |-> NewRun]

Settled(rec) == rec.result # "pending"

\* The runs for entitlement e that are over: the promise run() returned has
\* settled and no consent prompt of the run is still open.
Earlier(e) ==
  {q \in Runs : runs[q].ent = e /\ Settled(runs[q])
                 /\ runs[q].consent # "pending"}

\* JSON boolean of the response body.
JsonBool(b) == IF b THEN "true" ELSE "false"

----------------------------------------------------------------------------
(* run(), lines 184-215 *)

\* Line 190 with the test dropped: a stored refusal is not honoured.
IsRejected_ignored(rejected) == FALSE

\* Line 190: the test on the stored refusal.
IsRejected(rejected) == Truthy(rejected)

\* Line 145 with the test dropped: the cached result is not used.
IsCached_never(publisherAccountLocalValue) == FALSE

\* Line 145: the test on the cached existence result.
IsCached(publisherAccountLocalValue) == publisherAccountLocalValue # "undefined"

\* A failed check taken for "no account": the user is asked.
existsRejected_asNotFound(rec) ==
  [rec EXCEPT !.exists = "rejected", !.pc = "done", !.result = "resolved",
              !.consent = "pending"]

\* A failed check remembered as "no account".
existsRejected_cached(rec) ==
  [rec EXCEPT !.exists = "rejected", !.pc = "done", !.result = "rejected",
              !.found = "false", !.hasWrite = "pending"]

\* hasAssociatedUserAccount_ rejected: the callback of line 194 is skipped and
\* the promise of run() rejects.
existsRejected(rec) ==
  [rec EXCEPT !.exists = "rejected", !.pc = "done", !.result = "rejected"]

\* Lines 194-213 with the test of line 195 dropped: the user is asked even
\* when the account was found.
existsResolved_alwaysAsks(rec, found) ==
  [rec EXCEPT !.exists = "resolved", !.found = found,
              !.pc = "done", !.result = "resolved",
              !.consent = "pending"]

\* Lines 194-213, the callback on the existence result.  The promise of
\* line 199 is not returned, so the callback returns undefined either way and
\* the promise of run() resolves.
existsResolved(rec, found) ==
  IF Truthy(found)
  THEN [rec EXCEPT !.exists = "resolved", !.found = found,
                   !.pc = "done", !.result = "resolved"]
  ELSE [rec EXCEPT !.exists = "resolved", !.found = found,
                   !.pc = "done", !.result = "resolved",
                   !.consent = "pending"]

\* Lines 184-188: the synchronous part of run().  getStorageKey_ dereferences
\* crypto.subtle before any promise exists, so without it run() throws.
run(r, e) ==
  /\ runs[r].pc = "idle"
  /\ \A q \in Runs : q < r => runs[q].pc # "idle"
  /\ runs' = [runs EXCEPT ![r] =
       IF cryptoSubtle # "undefined"
       THEN [@ EXCEPT !.ent = e, !.pc = "checkRejection",
                      !.after = Earlier(e), !.hadAccount = account[e]]
       ELSE [@ EXCEPT !.ent = e, !.pc = "done", !.result = "threw",
                      !.after = Earlier(e), !.hadAccount = account[e]]]
  /\ UNCHANGED <<env, store, account>>

\* Lines 189-194: the callback on the stored refusal.
runThen(r) ==
  /\ runs[r].pc = "checkRejection"
  /\ LET rejected == getStorageData_(
                         LOCAL_STORAGE_KEYS.HAS_REJECTED_ACCOUNT_CREATION,
                         runs[r].ent)
       IN runs' = [runs EXCEPT ![r] =
            IF rejected = "rejects"
            THEN [@ EXCEPT !.pc = "done", !.result = "rejected"]
            ELSE IF IsRejected(rejected)
            THEN [@ EXCEPT !.rejected = rejected, !.pc = "done",
                           !.result = "resolved"]
            ELSE [@ EXCEPT !.rejected = rejected, !.pc = "checkExistence"]]
  /\ UNCHANGED <<env, store, account>>

\* Lines 140-152: the callback on the cached existence result.
hasAssociatedUserAccount_(r) ==
  /\ runs[r].pc = "checkExistence"
  /\ LET publisherAccountLocalValue ==
             getStorageData_(LOCAL_STORAGE_KEYS.HAS_PUBLISHER_ACCOUNT,
                             runs[r].ent)
       IN runs' = [runs EXCEPT ![r] =
            IF publisherAccountLocalValue = "rejects"
            THEN existsRejected(@)
            ELSE IF IsCached(publisherAccountLocalValue)
            THEN existsResolved(
                   [@ EXCEPT !.cached = publisherAccountLocalValue],
                   publisherAccountLocalValue)
            ELSE [@ EXCEPT !.cached = publisherAccountLocalValue,
                           !.urlCalls = @ + 1, !.pc = "fetch"]]
  /\ UNCHANGED <<env, store, account>>

\* Lines 151-171: buildUrl, fetchJson, result.json() and the callback that
\* schedules the write and returns jsonResult.
FetchOutcomes == {"buildUrl rejects", "fetchJson rejects", "json rejects", "ok"}

fetchJson(r) ==
  /\ runs[r].pc = "fetch"
  /\ \E outcome \in FetchOutcomes :
       runs' = [runs EXCEPT ![r] =
         IF outcome = "buildUrl rejects"
         THEN existsRejected(@)
         ELSE IF outcome # "ok"
         THEN existsRejected([@ EXCEPT !.netCalls = @ + 1])
         ELSE existsResolved(
                [@ EXCEPT !.netCalls = @ + 1, !.hasWrite = "pending"],
                JsonBool(account[runs[r].ent]))]
  /\ UNCHANGED <<env, store, account>>

\* The write of line 164 abandoned once the promise of run() has settled.
setHasPublisherAccount_aborted(r) ==
  /\ runs[r].hasWrite = "pending"
  /\ ~Settled(runs[r])
  /\ LET w == setStorageData_(LOCAL_STORAGE_KEYS.HAS_PUBLISHER_ACCOUNT,
                                runs[r].ent, runs[r].found)
       IN /\ runs' = [runs EXCEPT ![r].hasWrite = w.settled]
          /\ store' = w.store
  /\ UNCHANGED <<env, account>>

\* Lines 164-168 with 125-133: the write of the existence result settles.
setHasPublisherAccount(r) ==
  /\ runs[r].hasWrite = "pending"
  /\ LET w == setStorageData_(LOCAL_STORAGE_KEYS.HAS_PUBLISHER_ACCOUNT,
                                runs[r].ent, runs[r].found)
       IN /\ runs' = [runs EXCEPT ![r].hasWrite = w.settled]
          /\ store' = w.store
  /\ UNCHANGED <<env, account>>

\* What consentDeferredAccountCreation() settles to.
ConsentOutcomes == {"true", "false", "rejects"}

\* Lines 199-212 with the refusal recorded whatever the decision.
consentResolved_alwaysRecords(rec, accepted) ==
  IF accepted = "rejects"
  THEN [rec EXCEPT !.consent = "rejected"]
  ELSE IF Truthy(accepted)
  THEN [rec EXCEPT !.consent = "accepted", !.rejWrite = "pending",
                   !.nav = Append(@, accountCreationRedirectUrl_)]
  ELSE [rec EXCEPT !.consent = "declined", !.rejWrite = "pending"]

\* Lines 199-212: the callback on the user's decision.  A rejection of the
\* consent promise has no handler.
consentResolved(rec, accepted) ==
  IF accepted = "rejects"
  THEN [rec EXCEPT !.consent = "rejected"]
  ELSE IF Truthy(accepted)
  THEN [rec EXCEPT !.consent = "accepted",
                   !.nav = Append(@, accountCreationRedirectUrl_)]
  ELSE [rec EXCEPT !.consent = "declined", !.rejWrite = "pending"]

consentThen(r) ==
  /\ runs[r].consent = "pending"
  /\ \E accepted \in ConsentOutcomes :
       runs' = [runs EXCEPT ![r] = consentResolved(@, accepted)]
  /\ UNCHANGED <<env, store, account>>

\* Lines 206-210 with the decision itself as the value of line 209.
setHasRejectedAccountCreation_accepted(r) ==
  /\ runs[r].rejWrite = "pending"
  /\ LET w == setStorageData_(
                  LOCAL_STORAGE_KEYS.HAS_REJECTED_ACCOUNT_CREATION,
                  runs[r].ent, "false")
       IN /\ runs' = [runs EXCEPT ![r].rejWrite = w.settled]
          /\ store' = w.store
  /\ UNCHANGED <<env, account>>

\* Lines 206-210 with 125-133: the write of the refusal settles.
setHasRejectedAccountCreation(r) ==
  /\ runs[r].rejWrite = "pending"
  /\ LET w == setStorageData_(
                  LOCAL_STORAGE_KEYS.HAS_REJECTED_ACCOUNT_CREATION,
                  runs[r].ent, "true")
       IN /\ runs' = [runs EXCEPT ![r].rejWrite = w.settled]
          /\ store' = w.store
  /\ UNCHANGED <<env, account>>

\* The publisher's side: the user, sent to the account-creation page by
\* line 202, creates the account of the entitlement.
accountCreated(e) ==
  /\ ~account[e]
  /\ \E r \in Runs : runs[r].ent = e /\ runs[r].nav # <<>>
  /\ account' = [account EXCEPT ![e] = TRUE]
  /\ UNCHANGED <<env, store, runs>>

Next ==
  \/ \E r \in Runs, e \in Entitlements : run(r, e)
  \/ \E r \in Runs : runThen(r)
  \/ \E r \in Runs : hasAssociatedUserAccount_(r)
  \/ \E r \in Runs : fetchJson(r)
  \/ \E r \in Runs : setHasPublisherAccount(r)
  \/ \E r \in Runs : consentThen(r)
  \/ \E r \in Runs : setHasRejectedAccountCreation(r)
  \/ \E e \in Entitlements : accountCreated(e)

Spec == Init /\ [][Next]_vars

----------------------------------------------------------------------------
(* Properties *)

\* The page has a digest, and a storage service whose calls resolve.
StorageWorks ==
  /\ cryptoSubtle = "digest resolves"
  /\ storage_ = [promise |-> "resolved", get |-> "resolves", set |-> "resolves"]

\* What a run has asked of its collaborators past the read of the refusal.
NoExistenceCheck(rec) ==
  rec.cached = "unread" /\ rec.exists = "none" /\ rec.urlCalls = 0
  /\ rec.netCalls = 0 /\ rec.hasWrite = "none"
NoConsent(rec) == rec.consent = "none"
NoNavigation(rec) == rec.nav = <<>>
NoRefusalWrite(rec) == rec.rejWrite = "none"

\* C1 (rejection memory): a run whose read of HAS_REJECTED_ACCOUNT_CREATION
\* yielded the stored value true has resolved, and it has not read the cached
\* existence result, built a url, called the network, asked for consent or
\* navigated.
RejectionMemory ==
  \A r \in Runs :
    runs[r].rejected = "true" =>
      /\ runs[r].result = "resolved"
      /\ NoExistenceCheck(runs[r])
      /\ NoConsent(runs[r])
      /\ NoNavigation(runs[r])

RejectionMemoryWitness ==
  \E r \in Runs :
    /\ runs[r].rejected = "true"
    /\ store[getStorageKey_(LOCAL_STORAGE_KEYS.HAS_REJECTED_ACCOUNT_CREATION,
                            runs[r].ent)] = "true"
    /\ runs[r].result = "resolved"

\* C2 (fail closed): a run whose existence check rejected, whether the url
\* could not be built, the network call failed or the body did not parse, has
\* rejected, and it has not asked for consent, navigated or recorded a
\* refusal.
FailClosed ==
  \A r \in Runs :
    runs[r].exists = "rejected" =>
      /\ runs[r].result = "rejected"
      /\ NoConsent(runs[r])
      /\ NoNavigation(runs[r])
      /\ NoRefusalWrite(runs[r])

FailClosedWitness ==
  \E r \in Runs :
    /\ runs[r].exists = "rejected"
    /\ runs[r].netCalls = 1
    /\ runs[r].result = "rejected"

\* C4 (consent acceptance): a run whose existence check yielded found = false
\* and whose user accepted has navigated exactly once, to
\* accountCreationRedirectUrl_, and has recorded no refusal.
ConsentAcceptance ==
  \A r \in Runs :
    (runs[r].found = "false" /\ runs[r].consent = "accepted") =>
      /\ runs[r].nav = <<accountCreationRedirectUrl_>>
      /\ NoRefusalWrite(runs[r])

ConsentAcceptanceWitness ==
  \E r \in Runs :
    /\ runs[r].found = "false"
    /\ runs[r].consent = "accepted"
    /\ runs[r].nav = <<"https://pub.example/create-account">>

\* C5 (feature gate): when hasAssociatedAccountUrl_ or
\* accountCreationRedirectUrl_ is not configured, a run that was called has
\* resolved at once and has used no collaborator: no digest and store read,
\* no existence check, no consent prompt, no navigation, no write.  (Stated
\* for a page whose digest and store work.)
FeatureGate ==
  (~isDeferredAccountCreationEnabled /\ StorageWorks) =>
    \A r \in Runs :
      runs[r].pc # "idle" =>
        /\ runs[r].pc = "done"
        /\ runs[r].result = "resolved"
        /\ runs[r].rejected = "unread"
        /\ NoExistenceCheck(runs[r])
        /\ NoConsent(runs[r])
        /\ NoNavigation(runs[r])
        /\ NoRefusalWrite(runs[r])

\* C6 (cache short-circuit): a run whose read of HAS_PUBLISHER_ACCOUNT yielded
\* a stored value v has an existence check resolved with found = v, and it
\* has built no url, made no network call and scheduled no cache write.
CacheShortCircuit ==
  \A r \in Runs :
    runs[r].cached \in StoredValues =>
      /\ runs[r].exists = "resolved"
      /\ runs[r].found = runs[r].cached
      /\ runs[r].urlCalls = 0
      /\ runs[r].netCalls = 0
      /\ runs[r].hasWrite = "none"

CacheShortCircuitWitness ==
  \E r \in Runs :
    /\ runs[r].cached = "true"
    /\ runs[r].exists = "resolved"
    /\ runs[r].found = "true"
    /\ runs[r].netCalls = 0

\* C3 (consent refusal): with a working store, a run whose existence check
\* yielded found = false and whose user declined has issued the write of
\* HAS_REJECTED_ACCOUNT_CREATION and has not navigated, and a run for the same
\* entitlement that began after that run was over (its promise settled, its
\* prompt answered) is a no-op: it reads the refusal and checks nothing, asks
\* nothing, navigates nowhere.
ConsentRefusal ==
  StorageWorks =>
    \A q \in Runs :
      (runs[q].found = "false" /\ runs[q].consent = "declined") =>
        /\ runs[q].rejWrite # "none"
        /\ NoNavigation(runs[q])
        /\ \A r \in Runs :
             (q \in runs[r].after /\ runs[r].pc \notin {"idle", "checkRejection"})
               => /\ runs[r].rejected = "true"
                  /\ NoExistenceCheck(runs[r])
                  /\ NoConsent(runs[r])
                  /\ NoNavigation(runs[r])

\* C7 as stated (write-through): when a run's existence check missed the
\* cache and the network answered found = true, the existence check of a run
\* for the same entitlement that began afterwards hits the cache, and the
\* network is called once over the two.  (Stated for a page whose digest and
\* store work.)
WriteThroughAlways ==
  \A q, r \in Runs :
    (/\ StorageWorks
     /\ q \in runs[r].after
     /\ runs[q].cached = "undefined" /\ runs[q].netCalls = 1
     /\ runs[q].found = "true"
     /\ runs[r].cached # "unread")
      => /\ runs[r].cached # "undefined"
         /\ runs[q].netCalls + runs[r].netCalls = 1

\* C7 as amended: as above, for a later check whose cache read comes when
\* the first check's write has been stored and on a store whose get resolves:
\* that read hits, the check resolves from the cache and calls no network.
WriteThrough ==
  [][\A q, r \in Runs :
       (/\ runs[r].pc = "checkExistence" /\ runs'[r].pc # "checkExistence"
        /\ q \in runs[r].after
        /\ runs[q].cached = "undefined" /\ runs[q].netCalls = 1
        /\ runs[q].found = "true"
        /\ runs[q].hasWrite = "stored"
        /\ storage_.get = "resolves")
         => /\ runs'[r].cached \in StoredValues
            /\ runs'[r].exists = "resolved"
            /\ runs'[r].pc = "done"
            /\ runs'[q].netCalls + runs'[r].netCalls = 1]_vars

WriteThroughWitness ==
  \E q, r \in Runs :
    /\ q \in runs[r].after
    /\ runs[q].cached = "undefined" /\ runs[q].netCalls = 1
    /\ runs[q].found = "true" /\ runs[q].hasWrite = "stored"
    /\ runs[r].cached = "true" /\ runs[r].exists = "resolved"
    /\ runs[r].netCalls = 0

\* C8 (a failed check is not cached): a run whose existence check rejected
\* has rejected with it and has scheduled no write of HAS_PUBLISHER_ACCOUNT,
\* and the step in which the check rejects leaves the store as it was.
FailedCheckNotCached ==
  /\ [](\A r \in Runs :
          runs[r].exists = "rejected" =>
            runs[r].hasWrite = "none" /\ runs[r].result = "rejected")
  /\ [][\A r \in Runs :
          (runs[r].exists = "none" /\ runs'[r].exists = "rejected")
            => store' = store]_vars

FailedCheckNotCachedWitness ==
  \E r \in Runs :
    /\ runs[r].exists = "rejected"
    /\ runs[r].netCalls = 1
    /\ runs[r].hasWrite = "none"
    /\ store[getStorageKey_(LOCAL_STORAGE_KEYS.HAS_PUBLISHER_ACCOUNT,
                            runs[r].ent)] = "undefined"

\* The store cannot serve a read of the key: storage_ rejected, s.get
\* rejects, or the key is absent.
StoreTrouble(key) ==
  \/ storage_.promise = "rejected"
  \/ storage_.get = "rejects"
  \/ store[key] = "undefined"

\* C9 (a cache read does not reject on store trouble): for either purpose and
\* every entitlement, once the key is derived, a read that meets a rejected
\* storage_, a rejecting s.get or an absent key yields undefined, and the run
\* goes on: past the refusal read to the existence check, past the cache read
\* to the network.
CacheReadNeverRejects ==
  [][\A r \in Runs :
       /\ (/\ runs[r].pc = "checkRejection" /\ runs'[r].pc # "checkRejection"
           /\ cryptoSubtle = "digest resolves"
           /\ StoreTrouble(getStorageKey_(
                 LOCAL_STORAGE_KEYS.HAS_REJECTED_ACCOUNT_CREATION, runs[r].ent)))
            => /\ runs'[r].rejected = "undefined"
               /\ runs'[r].pc = "checkExistence"
               /\ runs'[r].result = "pending"
       /\ (/\ runs[r].pc = "checkExistence" /\ runs'[r].pc # "checkExistence"
           /\ cryptoSubtle = "digest resolves"
           /\ StoreTrouble(getStorageKey_(
                 LOCAL_STORAGE_KEYS.HAS_PUBLISHER_ACCOUNT, runs[r].ent)))
            => /\ runs'[r].cached = "undefined"
               /\ runs'[r].pc = "fetch"
               /\ runs'[r].exists = "none"
               /\ runs'[r].result = "pending"]_vars

CacheReadNeverRejectsWitness ==
  \E r \in Runs :
    /\ storage_.get = "rejects"
    /\ store[getStorageKey_(LOCAL_STORAGE_KEYS.HAS_REJECTED_ACCOUNT_CREATION,
                            runs[r].ent)] = "true"
    /\ runs[r].rejected = "undefined"
    /\ runs[r].cached = "undefined"
    /\ runs[r].pc = "fetch"

\* C10 (a failed cache write is not surfaced): when storage_ rejected or
\* s.set rejects, the promise of setStorageData_ still resolves, the
\* existence check still resolves with the network's found, and the run is
\* not rejected by the write.
WriteFailureNotSurfaced ==
  (storage_.promise = "rejected" \/ storage_.set = "rejects") =>
    \A r \in Runs :
      /\ runs[r].hasWrite # "rejected"
      /\ runs[r].rejWrite # "rejected"
      /\ runs[r].hasWrite # "none" =>
           runs[r].exists = "resolved" /\ runs[r].found \in StoredValues
      /\ runs[r].rejWrite # "none" => runs[r].result = "resolved"

HasKey(e) == getStorageKey_(LOCAL_STORAGE_KEYS.HAS_PUBLISHER_ACCOUNT, e)
RejKey(e) ==
  getStorageKey_(LOCAL_STORAGE_KEYS.HAS_REJECTED_ACCOUNT_CREATION, e)

\* C11 (entitlements are independent): the keys of two entitlements differ,
\* so what a run reads from the store was written by a run for the same
\* entitlement: a refusal it reads was recorded by a run for its entitlement
\* whose user declined, and a cached existence result it reads is the found
\* that a run for its entitlement stored.
EntitlementsIndependent ==
  \A r \in Runs :
    /\ runs[r].rejected = "true" =>
         \E q \in Runs : /\ runs[q].ent = runs[r].ent
                         /\ runs[q].consent = "declined"
                         /\ runs[q].rejWrite = "stored"
    /\ runs[r].cached \in StoredValues =>
         \E q \in Runs : /\ runs[q].ent = runs[r].ent
                         /\ runs[q].hasWrite = "stored"
                         /\ runs[q].found = runs[r].cached

\* C12 (key derivation): entitlements with the same serialization get the
\* same key for a purpose, the two purposes of an entitlement get different
\* keys, and so a value read as HAS_REJECTED_ACCOUNT_CREATION is the true that
\* some refusal write stored, and a value read as HAS_PUBLISHER_ACCOUNT is the
\* found that some existence write stored.
PurposeSeparation ==
  /\ \A p \in DOMAIN LOCAL_STORAGE_KEYS, e1, e2 \in Entitlements :
       JSON_stringify(e1) = JSON_stringify(e2) =>
         getStorageKey_(LOCAL_STORAGE_KEYS[p], e1)
           = getStorageKey_(LOCAL_STORAGE_KEYS[p], e2)
  /\ \A e \in Entitlements : HasKey(e) # RejKey(e)
  /\ \A r \in Runs :
       /\ runs[r].rejected \in StoredValues =>
            /\ runs[r].rejected = "true"
            /\ \E q \in Runs : runs[q].rejWrite = "stored"
       /\ runs[r].cached \in StoredValues =>
            \E q \in Runs : /\ runs[q].hasWrite = "stored"
                            /\ runs[q].found = runs[r].cached

PurposeSeparationWitness ==
  \E r \in Runs :
    /\ StorageWorks
    /\ runs[r].rejected = "undefined"
    /\ runs[r].cached = "true"
    /\ store[HasKey(runs[r].ent)] = "true"
    /\ store[RejKey(runs[r].ent)] = "undefined"

\* C13 (run completes only at Done): when the existence check of a run
\* yielded found=false, the promise returned by run does not settle before
\* the consent collaborator has resolved and the step that follows has been
\* carried out: the navigation on acceptance, the refusal write on refusal.
RunSettlesAtDone ==
  \A r \in Runs :
    (Settled(runs[r]) /\ runs[r].found = "false") =>
      /\ runs[r].consent \notin {"none", "pending"}
      /\ runs[r].consent = "accepted" => runs[r].nav # <<>>
      /\ runs[r].consent = "declined" => runs[r].rejWrite # "none"

\* C14 (consent failure is propagated): when consentDeferredAccountCreation()
\* rejects, the promise returned by run rejects.
ConsentFailurePropagated ==
  \A r \in Runs : runs[r].consent = "rejected" => runs[r].result = "rejected"

\* C15 (re-check after acceptance): a run that begins when the account
\* exists on the server, after a run for the same entitlement found no
\* account and had its consent accepted, resolves its existence check by
\* asking the server, obtains found=true and does not ask for consent.
ReCheckAfterAcceptance ==
  \A r \in Runs :
    ( /\ runs[r].hadAccount
      /\ runs[r].exists = "resolved"
      /\ \E q \in runs[r].after : /\ runs[q].found = "false"
                                   /\ runs[q].consent = "accepted" ) =>
      /\ runs[r].netCalls = 1
      /\ runs[r].found = "true"
      /\ runs[r].consent = "none"

ExistenceCheckStarted(rec) ==
  \/ rec.pc \in {"checkExistence", "fetch"}
  \/ rec.cached # "unread"
  \/ rec.exists # "none"

\* C16 (consent gating and step order): in every run the existence check
\* starts only after the refusal read resolved to a value that is not true,
\* consent is asked only after the existence check of the same run resolved
\* with found=false, and a run whose existence check yields found=true is
\* done without consent, navigation or refusal write.
StepOrder ==
  \A r \in Runs :
    /\ ExistenceCheckStarted(runs[r]) =>
         runs[r].rejected \in {"undefined", "false"}
    /\ runs[r].consent # "none" =>
         runs[r].exists = "resolved" /\ runs[r].found = "false"
    /\ runs[r].found = "true" =>
         /\ runs[r].pc = "done" /\ runs[r].result = "resolved"
         /\ NoConsent(runs[r])
         /\ NoNavigation(runs[r])
         /\ NoRefusalWrite(runs[r])

StepOrderWitness ==
  /\ \E r \in Runs : /\ runs[r].rejected = "undefined"
                     /\ runs[r].found = "true"
                     /\ runs[r].pc = "done"
  /\ \E r \in Runs : /\ runs[r].rejected = "undefined"
                     /\ runs[r].found = "false"
                     /\ runs[r].consent = "accepted"

\* C17 (digest unavailability degrades to a cache miss): when crypto.subtle
\* is missing or its digest rejects, no run throws, every read is absent and
\* nothing is written, and a run that is done went on to the remote
\* existence check.
DigestDegrades ==
  cryptoSubtle # "digest resolves" =>
    /\ \A k \in AllKeys : store[k] = "undefined"
    /\ \A r \in Runs :
         /\ runs[r].result # "threw"
         /\ runs[r].rejected \in {"unread", "undefined"}
         /\ runs[r].cached \in {"unread", "undefined"}
         /\ runs[r].pc = "done" => runs[r].urlCalls = 1

\* C18 (the consent decision is persisted only on refusal): a run has a
\* write under HAS_REJECTED_ACCOUNT_CREATION only after its consent resolved
\* false, the value stored under that purpose is never anything but true, and
\* once true is stored no step changes or removes it.
RefusalOnlyPersisted ==
  /\ [](\A r \in Runs :
          runs[r].rejWrite # "none" => runs[r].consent = "declined")
  /\ [](\A e \in Entitlements : store[RejKey(e)] \in {"undefined", "true"})
  /\ [][\A e \in Entitlements :
          store[RejKey(e)] = "true" => store'[RejKey(e)] = "true"]_vars

RefusalOnlyPersistedWitness ==
  \E r, q \in Runs :
    /\ runs[r].consent = "declined"
    /\ runs[r].rejWrite = "stored"
    /\ store[RejKey(runs[r].ent)] = "true"
    /\ runs[q].consent = "accepted"
    /\ runs[q].pc = "done"

\* The run missed the cache, asked the network and its write is stored.
MissedAndWrote(rec) ==
  /\ rec.cached = "undefined"
  /\ rec.netCalls = 1
  /\ rec.hasWrite = "stored"

\* C19 (concurrent existence checks are benign): the step that completes a
\* run's HAS_PUBLISHER_ACCOUNT write leaves that run's answer in the store
\* (the last write wins); and when two checks for one entitlement both missed
\* the cache, both called the network and both wrote, with the same answer
\* and no write of another answer, the stored value is that answer and both
\* checks resolved with it.
ConcurrentChecksBenign ==
  /\ [][\A r \in Runs :
          (runs[r].hasWrite = "pending" /\ runs'[r].hasWrite = "stored") =>
            store'[HasKey(runs[r].ent)] = runs[r].found]_vars
  /\ [](\A r, q \in Runs :
          ( /\ r # q
            /\ runs[r].ent = runs[q].ent
            /\ MissedAndWrote(runs[r])
            /\ MissedAndWrote(runs[q])
            /\ runs[r].found = runs[q].found
            /\ \A o \in Runs : runs[o].hasWrite = "stored" =>
                                  runs[o].found = runs[r].found ) =>
            /\ store[HasKey(runs[r].ent)] = runs[r].found
            /\ runs[r].exists = "resolved"
            /\ runs[q].exists = "resolved")

ConcurrentChecksBenignWitness ==
  \E r, q \in Runs :
    /\ r # q
    /\ runs[r].ent = runs[q].ent
    /\ MissedAndWrote(runs[r])
    /\ MissedAndWrote(runs[q])
    /\ runs[r].found = "false"
    /\ runs[q].found = "true"
    /\ store[HasKey(runs[r].ent)] = "false"

\* Every collaborator call settles: each callback of a chain that has been
\* started runs in the end.  Calls of run() and the creation of an account
\* are the caller's and the user's choice.
FairSpec ==
  /\ Spec
  /\ \A r \in Runs :
       /\ WF_vars(runThen(r))
       /\ WF_vars(hasAssociatedUserAccount_(r))
       /\ WF_vars(fetchJson(r))
       /\ WF_vars(setHasPublisherAccount(r))
       /\ WF_vars(consentThen(r))
       /\ WF_vars(setHasRejectedAccountCreation(r))

WriteDone(w) == w \in {"stored", "dropped", "rejected"}

\* C20 (progress under fairness): when every collaborator call settles,
\* every run that was called settles, and every write that was scheduled,
\* of the existence result or of the refusal, completes, as stored when the
\* store works, whether or not the promise of run() has settled by then.
Progress ==
  \A r \in Runs :
    /\ (runs[r].pc # "idle" /\ cryptoSubtle # "undefined")
          ~> (runs[r].result \in {"resolved", "rejected"})
    /\ (runs[r].consent = "pending") ~> (runs[r].consent # "pending")
    /\ (runs[r].hasWrite = "pending") ~> WriteDone(runs[r].hasWrite)
    /\ (runs[r].rejWrite = "pending") ~> WriteDone(runs[r].rejWrite)
    /\ (StorageWorks /\ runs[r].hasWrite = "pending")
          ~> (runs[r].hasWrite = "stored")
    /\ (StorageWorks /\ runs[r].rejWrite = "pending")
          ~> (runs[r].rejWrite = "stored")

ProgressWitness ==
  \E r \in Runs :
    /\ Settled(runs[r])
    /\ runs[r].hasWrite = "stored"
    /\ runs[r].rejWrite = "stored"

TypeOK ==
  /\ store \in [AllKeys -> StoredValues \cup {"undefined"}]
  /\ \A r \in Runs : runs[r].urlCalls \in 0..1 /\ runs[r].netCalls \in 0..1

====
